---- MODULE Spec2Model ----
(***************************************************************************)
(* A model of wikigraph's Collector (src/src/article.rs): the fetch cache, *)
(* the single and batch lookups, the neighbourhood and path queries and    *)
(* the path finder.  One Collector value is driven by one caller (every    *)
(* method takes &mut self), so at most one call is active; `stack` holds   *)
(* the labels of the active call chain, innermost first.  The transport    *)
(* (reqwest) and the page parser are the environment: a fetch of `u`       *)
(* either fails or yields the Article whose references are web[u].  The    *)
(* content of a page is chosen when the page is first served (any set of   *)
(* identifiers); web[u] is the content last served.  A page that changed   *)
(* since it was last served is seen as such by the next fetch of it, which *)
(* is where `edits` counts the change.                                     *)
(***************************************************************************)
EXTENDS Integers, Sequences, FiniteSets, TLC

\* The article identifiers (URL values).  Integers, so that `<` is the
\* total order ns.sort() and binary_search use.
URLS == {1, 2, 3}

\* Session budget: the caller starts calls while processed is below it.
MaxProcessed == 2
\* Longest list handed to get_list / get_list_stable by the caller.
MaxLen == 2
\* Largest depth handed to get_neighbourhood.
MaxDepth == 3
\* How many times a fetch finds a page changed since it was last served.
MaxEdits == 1

VARIABLES
    web,        \* transport + parser: served URL -> set of referenced URLs
    edits,      \* number of page changes the fetches have seen so far
    cache,      \* Collector.cache : HashMap<URL, Article>
    processed,  \* Collector.processed
    fetched,    \* instrumentation: transport calls issued per URL
    session,    \* instrumentation: has a fetch failed, was a batch given a repeated id
    stack,      \* labels of the active call chain, innermost first; <<>> = no call
    rv,         \* value returned by the call that returned last
    call,       \* the current/last top-level call, with the state it started from
    getF,       \* locals of get
    stableF,    \* locals of get_list_stable
    listF,      \* locals of get_list
    nbF,        \* locals of get_neighbourhood
    pathF,      \* locals of get_path
    findF,      \* locals of find_path
    text,       \* the &str handed to URL::new / the page text handed to Article::parse
    out         \* what URL::new / Article::parse returned for it

vars == <<web, edits, cache, processed, fetched, session, stack, rv, call,
          getF, stableF, listF, nbF, pathF, findF, text, out>>

----------------------------------------------------------------------------
\* Values

Article(u, refs) == [url |-> u, references |-> refs]

Ok(v) == [kind |-> "ok", val |-> v]
Err(e) == [kind |-> "err", val |-> e]
\* A violated expectation that is handed back as an error value.
PanickedAsErr(m) == [kind |-> "err", val |-> m]

\* expect / unwrap on Err or None: the thread panics with message m.
Panicked(m) == [kind |-> "panic", val |-> m]
NoResult == [kind |-> "none", val |-> "none"]

Pending == [kind |-> "pending", val |-> "pending"]

\* HashSet iteration / into_iter().collect(): some order of the elements.
Perms(S) ==
    {p \in [1..Cardinality(S) -> S] : \A i, j \in 1..Cardinality(S) : p[i] = p[j] => i = j}

\* Lists of at most n identifiers (the caller's input to the batch lookups).
Lists(n) == UNION {[1..k -> URLS] : k \in 0..n}

Count(s, u) == Cardinality({i \in 1..Len(s) : s[i] = u})

Range(s) == {s[i] : i \in 1..Len(s)}

\* An insert into a map that keeps only its newest entry.
InsertEvicting(m, k, v) == [x \in {k} |-> v]

\* HashMap::insert: adds the key or overwrites its value.
Insert(m, k, v) == [x \in DOMAIN m \cup {k} |-> IF x = k THEN v ELSE m[x]]

\* The contents the remote page of `u` may be served with now.
Served(u) ==
    IF u \in DOMAIN web /\ edits >= MaxEdits THEN {web[u]} ELSE SUBSET URLS

\* get_uncached, lines 122-127: the outcomes of one transport call + parse
\* for `u`: an error, or the Article parsed from the page as served.
GetUncachedOutcomes(u) ==
    {Err("RequestError")} \cup {Ok(Article(u, S)) : S \in Served(u)}

\* The remote content after outcome `r` of a fetch of `u`.
WebAfter(u, r) == IF r.kind = "ok" THEN Insert(web, u, r.val.references) ELSE web

\* The changes seen after outcome `r` of a fetch of `u`.
EditsAfter(u, r) ==
    IF r.kind = "ok" /\ u \in DOMAIN web /\ r.val.references # web[u]
    THEN edits + 1 ELSE edits

----------------------------------------------------------------------------
\* Idle frames

NoGet == [url |-> 0]
NoStable == [urls |-> <<>>, res |-> <<>>]
NoList == [urls |-> <<>>, ys |-> <<>>, xs |-> <<>>, res |-> <<>>, i |-> 0]
NoNb == [url |-> 0, depth |-> 0, round |-> 0, ts |-> {}, ns |-> {}]
NoPath == [og |-> 0, tg |-> 0, ts |-> {}, ns |-> {}]
NoFind == [og |-> 0, tg |-> 0, ns |-> <<>>, adj |-> <<>>, seen |-> <<>>, q |-> <<>>,
           v |-> 0, og_idx |-> 0, tg_idx |-> 0, bd |-> <<>>, path |-> <<>>,
           dequeued |-> <<>>]

NoBefore == [rv |-> NoResult, cache0 |-> <<>>]

NoCall == [op |-> "none", urls |-> <<>>, depth |-> 0, nodes |-> {},
           cache0 |-> <<>>, fetched0 |-> [u \in URLS |-> 0], processed0 |-> 0,
           failures |-> 0, before |-> NoBefore]

\* The record of a call that starts now.  `before` keeps the result and the
\* starting cache of the call just finished when that was a get_list of the
\* same input as this get_list.
NewCall(op, urls, depth, nodes) ==
    [op |-> op, urls |-> urls, depth |-> depth, nodes |-> nodes,
     cache0 |-> cache, fetched0 |-> fetched, processed0 |-> processed,
     failures |-> 0,
     before |-> IF op = "get_list" /\ call.op = "get_list" /\ call.urls = urls
                THEN [rv |-> rv, cache0 |-> call.cache0]
                ELSE NoBefore]

Idle == stack = <<>> /\ rv.kind # "panic"

At(label) == stack # <<>> /\ Head(stack) = label

\* A caller starts a top-level call: the call record, the entry label and
\* the callee's locals; the locals of the previous call are dropped.
Enter(c, label, g, s, l, n, p, f) ==
    /\ Idle
    /\ call' = c
    /\ session' = [session EXCEPT !.repeated =
                       @ \/ (c.op = "get_list" /\ Cardinality(Range(c.urls)) < Len(c.urls))]
    /\ stack' = <<label>>
    /\ rv' = NoResult
    /\ getF' = g
    /\ stableF' = s
    /\ listF' = l
    /\ nbF' = n
    /\ pathF' = p
    /\ findF' = f
    /\ UNCHANGED <<web, edits, cache, processed, fetched,
                 text, out>>

\* A call of the session: the caller stays within its budget of lookups.
Start(c, label, g, s, l, n, p, f) ==
    processed < MaxProcessed /\ Enter(c, label, g, s, l, n, p, f)

\* Collector::new, lines 95-101, and no call made yet.
New ==
    /\ web = <<>>
    /\ edits = 0
    /\ cache = <<>>
    /\ processed = 0
    /\ fetched = [u \in URLS |-> 0]
    /\ session = [failed |-> FALSE, repeated |-> FALSE]
    /\ stack = <<>>
    /\ rv = NoResult
    /\ call = NoCall
    /\ getF = NoGet
    /\ stableF = NoStable
    /\ listF = NoList
    /\ nbF = NoNb
    /\ pathF = NoPath
    /\ findF = NoFind

Init ==
    /\ New
    /\ text = <<>>
    /\ out = NoResult

----------------------------------------------------------------------------
\* A counter that stays as it is.
Uncounted(n) == processed

\* Lines 107 and 156: self.processed += n.
Counted(n) == processed + n

\* A get that never finds its url in the cache.
GetHitNever(u) == FALSE

\* Line 108: self.cache.get(url) is Some.
GetHit(u) == u \in DOMAIN cache

\* A get that returns the fetched article without storing it.
CacheAfterGetUnstored(u, r) == cache

\* Lines 111-112: the cache once the fetch of u resolved with r.
CacheAfterGet(u, r) == IF r.kind = "ok" THEN Insert(cache, u, r.val) ELSE cache

\* Collector::get, lines 106-110: count the lookup, answer from the cache or
\* start the transport call.
Get ==
    /\ At("get")
    /\ processed' = Counted(1)
    /\ IF GetHit(getF.url)
       THEN /\ rv' = Ok(cache[getF.url])
            /\ stack' = Tail(stack)
            /\ getF' = NoGet
            /\ fetched' = fetched
       ELSE /\ stack' = <<"get_uncached">> \o Tail(stack)
            /\ fetched' = [fetched EXCEPT ![getF.url] = @ + 1]
            /\ UNCHANGED <<rv, getF>>
    /\ UNCHANGED <<session, web, edits, cache, call, stableF, listF, nbF, pathF, findF,
                 text, out>>

\* Collector::get, lines 111-113 (with get_uncached, 122-127): the transport
\* call resolves; `?` returns the error, success is inserted and returned.
GetUncached ==
    /\ At("get_uncached")
    /\ \E r \in GetUncachedOutcomes(getF.url) :
        /\ rv' = r
        /\ web' = WebAfter(getF.url, r)
        /\ edits' = EditsAfter(getF.url, r)
        /\ cache' = CacheAfterGet(getF.url, r)
        /\ call' = [call EXCEPT !.failures = @ + (IF r.kind = "err" THEN 1 ELSE 0)]
        /\ session' = [session EXCEPT !.failed = @ \/ r.kind = "err"]
    /\ stack' = Tail(stack)
    /\ getF' = NoGet
    /\ UNCHANGED <<processed, fetched, stableF, listF, nbF, pathF, findF,
                 text, out>>

\* A caller invokes get(u).
CallGet ==
    \E u \in URLS :
        Start(NewCall("get", <<u>>, 0, {}), "get",
              [url |-> u], NoStable, NoList, NoNb, NoPath, NoFind)

----------------------------------------------------------------------------
\* Collector::get_list_stable, lines 135-146.

\* A caller invokes get_list_stable(urls).
CallGetListStable ==
    \E urls \in Lists(MaxLen) :
        Start(NewCall("get_list_stable", urls, 0, {}), "stable",
              NoGet, [urls |-> urls, res |-> <<>>], NoList, NoNb, NoPath, NoFind)

\* Lines 141-142 and 145: the loop head; the next url goes to get, or the
\* collected list is returned.
StableLoop ==
    /\ At("stable")
    /\ IF Len(stableF.res) < Len(stableF.urls)
       THEN /\ getF' = [url |-> stableF.urls[Len(stableF.res) + 1]]
            /\ stack' = <<"get", "stable_push">> \o Tail(stack)
            /\ UNCHANGED <<rv, stableF>>
       ELSE /\ rv' = Ok(stableF.res)
            /\ stack' = Tail(stack)
            /\ stableF' = NoStable
            /\ getF' = getF
    /\ UNCHANGED <<session, web, edits, cache, processed, fetched, call, listF, nbF, pathF, findF,
                 text, out>>

\* A push at the front of the result list.
PushedFront(res, a) == <<a>> \o res

\* Line 142: res.push(article).
Pushed(res, a) == Append(res, a)

\* A loop that puts an article without references in the place of a failed
\* lookup and goes on.
StablePushSkipping ==
    /\ At("stable_push")
    /\ stableF' = [stableF EXCEPT !.res =
                       Pushed(@, IF rv.kind = "err"
                                 THEN Article(stableF.urls[Len(stableF.res) + 1], {})
                                 ELSE rv.val)]
    /\ stack' = <<"stable">> \o Tail(stack)
    /\ UNCHANGED <<session, web, edits, cache, processed, fetched, rv, call, getF, listF, nbF, pathF, findF,
                 text, out>>

\* Line 142, after the await: `?` returns the error, a result is pushed.
StablePush ==
    /\ At("stable_push")
    /\ IF rv.kind = "err"
       THEN /\ stack' = Tail(stack)
            /\ stableF' = NoStable
       ELSE /\ stableF' = [stableF EXCEPT !.res = Pushed(@, rv.val)]
            /\ stack' = <<"stable">> \o Tail(stack)
    /\ UNCHANGED <<session, web, edits, cache, processed, fetched, rv, call, getF, listF, nbF, pathF, findF,
                 text, out>>

----------------------------------------------------------------------------
\* Collector::get_list, lines 154-183.

\* The cached articles of `urls`, last input first.
CachedOfReversed(urls) ==
    LET hit == SelectSeq(urls, LAMBDA x : x \in DOMAIN cache)
    IN  [i \in 1..Len(hit) |-> cache[hit[Len(hit) + 1 - i]]]

\* Lines 160-167: the cached articles of `urls`, in input order.
CachedOf(urls) ==
    LET hit == SelectSeq(urls, LAMBDA x : x \in DOMAIN cache)
    IN  [i \in 1..Len(hit) |-> cache[hit[i]]]

\* The urls that need a transport call, each of them once.
UncachedOfOnce(urls) ==
    LET first == SelectSeq([i \in 1..Len(urls) |-> i],
                           LAMBDA i : /\ urls[i] \notin DOMAIN cache
                                      /\ \A j \in 1..(i - 1) : urls[j] # urls[i])
    IN  [k \in 1..Len(first) |-> urls[first[k]]]

\* Lines 160-167: the urls that need a transport call, in input order.
UncachedOf(urls) == SelectSeq(urls, LAMBDA x : x \notin DOMAIN cache)

\* A join that hands over its results at once.
NoneAwaited == TRUE

\* Line 169: join_all(fs).await is ready when every future is.
AllResolved == \A i \in 1..Len(listF.res) : listF.res[i].kind # "pending"

\* A caller invokes get_list(urls).
CallGetList ==
    \E urls \in Lists(MaxLen) :
        Start(NewCall("get_list", urls, 0, {}), "list",
              NoGet, NoStable, [NoList EXCEPT !.urls = urls], NoNb, NoPath, NoFind)

\* Lines 155-169 up to the first poll of join_all: count the lookups, split
\* the input by the cache as it is now, and start one transport call per
\* uncached position.
List ==
    /\ At("list")
    /\ processed' = Counted(Len(listF.urls))
    /\ LET xs == UncachedOf(listF.urls)
       IN  /\ listF' = [listF EXCEPT !.ys = CachedOf(listF.urls),
                                     !.xs = xs,
                                     !.res = [i \in 1..Len(xs) |-> Pending],
                                     !.i = 1]
           /\ fetched' = [u \in URLS |-> fetched[u] + Count(xs, u)]
    /\ stack' = <<"list_join">> \o Tail(stack)
    /\ UNCHANGED <<session, web, edits, cache, rv, call, getF, stableF, nbF, pathF, findF,
                 text, out>>

\* Line 169: one of the joined futures resolves, in any order.
ListJoin ==
    /\ At("list_join")
    /\ \E i \in 1..Len(listF.res) :
        /\ listF.res[i].kind = "pending"
        /\ \E r \in GetUncachedOutcomes(listF.xs[i]) :
            /\ listF' = [listF EXCEPT !.res[i] = r]
            /\ web' = WebAfter(listF.xs[i], r)
            /\ edits' = EditsAfter(listF.xs[i], r)
            /\ call' = [call EXCEPT !.failures = @ + (IF r.kind = "err" THEN 1 ELSE 0)]
            /\ session' = [session EXCEPT !.failed = @ \/ r.kind = "err"]
    /\ UNCHANGED <<cache, processed, fetched, stack, rv, getF, stableF, nbF, pathF, findF,
                 text, out>>

\* A fold that returns the fetched article without storing it.
CacheAfterFoldUnstored(x, y) == cache

\* Line 173: self.cache.insert(x, y).
CacheAfterFold(x, y) == Insert(cache, x, y)

\* Lines 170-180: one iteration over the zipped results; a success is
\* inserted and pushed, the first error is returned.
ListFold ==
    /\ At("list_join")
    /\ AllResolved
    /\ listF.i <= Len(listF.xs)
    /\ LET r == listF.res[listF.i]
       IN  IF r.kind = "ok"
           THEN /\ cache' = CacheAfterFold(listF.xs[listF.i], r.val)
                /\ listF' = [listF EXCEPT !.ys = Append(@, r.val), !.i = @ + 1]
                /\ UNCHANGED <<stack, rv>>
           ELSE /\ rv' = r
                /\ stack' = Tail(stack)
                /\ listF' = NoList
                /\ cache' = cache
    /\ UNCHANGED <<session, web, edits, processed, fetched, call, getF, stableF, nbF, pathF, findF,
                 text, out>>

\* Lines 181-182: every result was a success.
ListDone ==
    /\ At("list_join")
    /\ AllResolved
    /\ listF.i > Len(listF.xs)
    /\ rv' = Ok(listF.ys)
    /\ stack' = Tail(stack)
    /\ listF' = NoList
    /\ UNCHANGED <<session, web, edits, cache, processed, fetched, call, getF, stableF, nbF, pathF, findF,
                 text, out>>

----------------------------------------------------------------------------
\* Collector::get_neighbourhood, lines 187-218.

\* Lines 206-213 and 230-236: the references of `arts` not encountered yet.
NewTs(arts, ns) == UNION {arts[i].references : i \in 1..Len(arts)} \ ns

\* An expansion that leaves the new references out of ns.
NsAfterUnfolded(arts, ns) == ns

\* Lines 206-213 and 230-236: ns after every reference was inserted.
NsAfter(arts, ns) == ns \cup UNION {arts[i].references : i \in 1..Len(arts)}

\* A range that starts at 0.
InRangeFromZero(round, depth) == round <= depth

\* Line 195: `for _ in 1..depth` has an iteration left; round counts from 1.
InRange(round, depth) == round < depth

\* A caller invokes get_neighbourhood(url, depth).
CallGetNeighbourhood ==
    \E u \in URLS, d \in 0..MaxDepth :
        Start(NewCall("get_neighbourhood", <<u>>, d, {}), "nb",
              NoGet, NoStable, NoList,
              [url |-> u, depth |-> d, round |-> 1, ts |-> {u}, ns |-> {}],
              NoPath, NoFind)

\* Lines 195-204: one iteration of `for _ in 1..depth` up to its get_list;
\* line 217 once the range is exhausted: get_list(ns) gives the result.
Nb ==
    /\ At("nb")
    /\ IF InRange(nbF.round, nbF.depth)
       THEN /\ \E urls \in Perms(nbF.ts) : listF' = [NoList EXCEPT !.urls = urls]
            /\ nbF' = [nbF EXCEPT !.ns = @ \cup nbF.ts]
            /\ stack' = <<"list", "nb_expand">> \o Tail(stack)
       ELSE /\ \E urls \in Perms(nbF.ns) : listF' = [NoList EXCEPT !.urls = urls]
            /\ nbF' = nbF
            /\ stack' = <<"list">> \o Tail(stack)
    /\ UNCHANGED <<session, web, edits, cache, processed, fetched, rv, call, getF, stableF, pathF, findF,
                 text, out>>

\* An expansion that takes a failed batch for an empty one and goes on.
NbExpandLenient ==
    /\ At("nb_expand")
    /\ LET arts == IF rv.kind = "err" THEN <<>> ELSE rv.val
       IN  nbF' = [nbF EXCEPT !.ts = NewTs(arts, nbF.ns),
                              !.ns = NsAfter(arts, nbF.ns),
                              !.round = @ + 1]
    /\ stack' = <<"nb">> \o Tail(stack)
    /\ UNCHANGED <<session, web, edits, cache, processed, fetched, rv, call, getF, stableF, listF, pathF, findF,
                 text, out>>

\* Lines 204-215, after the await: `?` returns the error; otherwise the new
\* frontier is the references not encountered before.
NbExpand ==
    /\ At("nb_expand")
    /\ IF rv.kind = "err"
       THEN /\ stack' = Tail(stack)
            /\ nbF' = nbF
       ELSE /\ nbF' = [nbF EXCEPT !.ts = NewTs(rv.val, nbF.ns),
                                  !.ns = NsAfter(rv.val, nbF.ns),
                                  !.round = @ + 1]
            /\ stack' = <<"nb">> \o Tail(stack)
    /\ UNCHANGED <<session, web, edits, cache, processed, fetched, rv, call, getF, stableF, listF, pathF, findF,
                 text, out>>

----------------------------------------------------------------------------
\* Collector::get_path, lines 222-240.

\* A caller invokes get_path(og, tg).
CallGetPath ==
    \E og \in URLS, tg \in URLS :
        Start(NewCall("get_path", <<og, tg>>, 0, {}), "path",
              NoGet, NoStable, NoList, NoNb,
              [og |-> og, tg |-> tg, ts |-> {og}, ns |-> {}], NoFind)

\* Lines 226-228: the loop test and one iteration up to its get_list;
\* line 239 when the frontier holds the target: find_path gives the result.
Path ==
    /\ At("path")
    /\ IF pathF.tg \notin pathF.ts
       THEN /\ \E urls \in Perms(pathF.ts) : listF' = [NoList EXCEPT !.urls = urls]
            /\ pathF' = [pathF EXCEPT !.ns = @ \cup pathF.ts]
            /\ stack' = <<"list", "path_expand">> \o Tail(stack)
            /\ findF' = findF
       ELSE /\ \E ns \in Perms(pathF.ns) :
                findF' = [NoFind EXCEPT !.og = pathF.og, !.tg = pathF.tg, !.ns = ns]
            /\ stack' = <<"find">> \o Tail(stack)
            /\ UNCHANGED <<listF, pathF>>
    /\ UNCHANGED <<session, web, edits, cache, processed, fetched, rv, call, getF, stableF, nbF,
                 text, out>>

\* Lines 228-237, after the await.
PathExpand ==
    /\ At("path_expand")
    /\ IF rv.kind = "err"
       THEN /\ stack' = Tail(stack)
            /\ pathF' = pathF
       ELSE /\ pathF' = [pathF EXCEPT !.ts = NewTs(rv.val, pathF.ns),
                                      !.ns = NsAfter(rv.val, pathF.ns)]
            /\ stack' = <<"path">> \o Tail(stack)
    /\ UNCHANGED <<session, web, edits, cache, processed, fetched, rv, call, getF, stableF, listF, nbF, findF,
                 text, out>>

----------------------------------------------------------------------------
\* neighs and binary_dijkstra, lines 300-352.  Indices are 1-based here
\* (node i of the source is node i+1); 0 stands for None in `from`.

\* Position of edge v -> k in the flat l*l matrix (source: l * v + k).
Cell(l, v, k) == l * (v - 1) + k

RECURSIVE NeighsFrom(_, _, _, _)
NeighsFrom(adj, l, v, i) ==
    IF i > l THEN <<>>
    ELSE (IF adj[Cell(l, v, i)] THEN <<i>> ELSE <<>>) \o NeighsFrom(adj, l, v, i + 1)

\* Lines 344-352: the neighbours of v, in ascending order.
Neighs(adj, l, v) == NeighsFrom(adj, l, v, 1)

\* Line 310: the initial tentative distance of every node.
InitialDist == 0

\* Lines 314-317: every neighbour of og gets og as predecessor and is queued.
RECURSIVE SeedQueue(_, _, _)
SeedQueue(st, nb, og) ==
    IF nb = <<>> THEN st
    ELSE SeedQueue([st EXCEPT !.from[Head(nb)] = og, !.q = Append(@, Head(nb))],
                   Tail(nb), og)

\* Lines 323-328: the neighbours of v without a predecessor get v and are queued.
RECURSIVE Relax(_, _, _)
Relax(st, nb, v) ==
    IF nb = <<>> THEN st
    ELSE Relax(IF st.from[Head(nb)] = 0
               THEN [st EXCEPT !.from[Head(nb)] = v, !.q = Append(@, Head(nb))]
               ELSE st,
               Tail(nb), v)

\* Lines 318-329: the main loop.
RECURSIVE DijkstraLoop(_, _, _, _)
DijkstraLoop(st, adj, l, tg) ==
    IF st.dist[tg] < 0 /\ st.q # <<>>
    THEN LET v == Head(st.q)
             p == st.from[v]
             popped == [st EXCEPT !.q = Tail(@),
                                  !.dist[v] = st.dist[p] + 1,
                                  !.visited[v] = TRUE]
         IN  DijkstraLoop(Relax(popped, Neighs(adj, l, v), v), adj, l, tg)
    ELSE st

\* Lines 330-335: predecessors from tg back to og, tg first; a 0 marks
\* from[v].unwrap() on None.
RECURSIVE WalkBack(_, _, _)
WalkBack(from, v, og) ==
    IF v = og THEN <<>>
    ELSE IF from[v] = 0 THEN <<0>>
    ELSE <<v>> \o WalkBack(from, from[v], og)

Reverse(s) == [i \in 1..Len(s) |-> s[Len(s) + 1 - i]]

\* Lines 300-338.  Some(path), None, or a panic of an unwrap.
BinaryDijkstra(adj, l, og, tg) ==
    IF og > l \/ tg > l \/ Len(adj) # l * l
    THEN [kind |-> "none", val |-> <<>>]
    ELSE LET st0 == [visited |-> [i \in 1..l |-> i = og],
                     from |-> [i \in 1..l |-> 0],
                     dist |-> [i \in 1..l |-> InitialDist],
                     q |-> <<>>]
             st1 == SeedQueue(st0, Neighs(adj, l, og), og)
             st2 == DijkstraLoop(st1, adj, l, tg)
             back == WalkBack(st2.from, tg, og)
         IN  IF \E i \in 1..Len(back) : back[i] = 0
             THEN [kind |-> "panic", val |-> <<>>]
             ELSE [kind |-> "some", val |-> Reverse(back)]

----------------------------------------------------------------------------
\* Collector::find_path, lines 249-291.

\* Vec::sort (line 255), as an insertion sort.
RECURSIVE InsertSorted(_, _)
InsertSorted(s, x) ==
    IF s = <<>> THEN <<x>>
    ELSE IF x <= Head(s) THEN <<x>> \o s
    ELSE <<Head(s)>> \o InsertSorted(Tail(s), x)

RECURSIVE Sort(_)
Sort(s) == IF s = <<>> THEN <<>> ELSE InsertSorted(Sort(Tail(s)), Head(s))

\* slice::binary_search on a sorted list without repetitions: the position
\* of x, or 0 for Err.
BinarySearch(ns, x) ==
    IF \E i \in 1..Len(ns) : ns[i] = x
    THEN CHOOSE i \in 1..Len(ns) : ns[i] = x
    ELSE 0

\* A loop that queues a referenced node whether it was seen or not.
RECURSIVE EdgesRequeueing(_, _, _)
EdgesRequeueing(f, v, refs) ==
    IF refs = <<>> THEN f
    ELSE LET k == BinarySearch(f.ns, Head(refs))
             l == Len(f.ns)
         IN  IF k = 0 THEN EdgesRequeueing(f, v, Tail(refs))
             ELSE EdgesRequeueing([f EXCEPT !.adj[Cell(l, v, k)] = TRUE,
                                            !.q = Append(@, k),
                                            !.seen[k] = TRUE],
                                  v, Tail(refs))

\* Lines 273-283: the references of the dequeued node v, in the order the
\* set yields them; adj, seen and q as the loop leaves them.
RECURSIVE Edges(_, _, _)
Edges(f, v, refs) ==
    IF refs = <<>> THEN f
    ELSE LET k == BinarySearch(f.ns, Head(refs))
             l == Len(f.ns)
         IN  IF k = 0 THEN Edges(f, v, Tail(refs))
             ELSE Edges([f EXCEPT !.adj[Cell(l, v, k)] = TRUE,
                                  !.q = IF f.seen[k] THEN @ ELSE Append(@, k),
                                  !.seen[k] = TRUE],
                        v, Tail(refs))

\* A direct call of find_path(og, tg, ns), as from the module's own tests.
CallFindPath ==
    \E og \in URLS, tg \in URLS, nodes \in SUBSET URLS :
        \E ns \in Perms(nodes) :
            Start(NewCall("find_path", <<og, tg>>, 0, nodes), "find",
                  NoGet, NoStable, NoList, NoNb, NoPath,
                  [NoFind EXCEPT !.og = og, !.tg = tg, !.ns = ns])

\* Lines 255-267: sort, locate both ends (expect panics on Err), seed the queue.
Find ==
    /\ At("find")
    /\ LET ns == Sort(findF.ns)
           l == Len(ns)
           og_idx == BinarySearch(ns, findF.og)
           tg_idx == BinarySearch(ns, findF.tg)
       IN  IF og_idx = 0
           THEN /\ rv' = Panicked("Origin for required path is not in given neighbourhood.")
                /\ stack' = <<>>
                /\ findF' = [findF EXCEPT !.ns = ns]
           ELSE IF tg_idx = 0
           THEN /\ rv' = Panicked("Target for required path is not in given neighbourhood.")
                /\ stack' = <<>>
                /\ findF' = [findF EXCEPT !.ns = ns]
           ELSE /\ findF' = [findF EXCEPT !.ns = ns,
                                          !.adj = [i \in 1..(l * l) |-> FALSE],
                                          !.seen = [i \in 1..l |-> i = og_idx],
                                          !.q = <<og_idx>>,
                                          !.og_idx = og_idx,
                                          !.tg_idx = tg_idx]
                /\ stack' = <<"find_bfs">> \o Tail(stack)
                /\ rv' = rv
    /\ UNCHANGED <<session, web, edits, cache, processed, fetched, call, getF, stableF, listF, nbF, pathF,
                 text, out>>

\* Lines 268-272: the visitation loop's test, the dequeue (expect panics on
\* an empty queue) and the get of the dequeued node; lines 285-286 once the
\* target is seen.
FindBfs ==
    /\ At("find_bfs")
    /\ IF ~findF.seen[findF.tg_idx]
       THEN IF findF.q = <<>>
            THEN /\ rv' = Panicked("Target could not be visited before exhausting neighbourhood.")
                 /\ stack' = <<>>
                 /\ UNCHANGED <<findF, getF>>
            ELSE /\ findF' = [findF EXCEPT !.v = Head(findF.q),
                                           !.q = Tail(@),
                                           !.dequeued = Append(@, Head(findF.q))]
                 /\ getF' = [url |-> findF.ns[Head(findF.q)]]
                 /\ stack' = <<"get", "find_edges">> \o Tail(stack)
                 /\ rv' = rv
       ELSE LET bd == BinaryDijkstra(findF.adj, Len(findF.ns), findF.og_idx, findF.tg_idx)
            IN  IF bd.kind = "some"
                THEN /\ findF' = [findF EXCEPT !.bd = bd.val]
                     /\ stack' = <<"find_out">> \o Tail(stack)
                     /\ UNCHANGED <<rv, getF>>
                ELSE /\ rv' = Panicked("called Option::unwrap on a None value")
                     /\ stack' = <<>>
                     /\ UNCHANGED <<findF, getF>>
    /\ UNCHANGED <<session, web, edits, cache, processed, fetched, call, stableF, listF, nbF, pathF,
                 text, out>>

\* Lines 272-283, after the await: `?` returns the error; otherwise the
\* edges of the dequeued node are recorded.
FindEdges ==
    /\ At("find_edges")
    /\ IF rv.kind = "err"
       THEN /\ stack' = Tail(stack)
            /\ findF' = findF
       ELSE /\ \E refs \in Perms(rv.val.references) :
                findF' = Edges(findF, findF.v, refs)
            /\ stack' = <<"find_bfs">> \o Tail(stack)
    /\ UNCHANGED <<session, web, edits, cache, processed, fetched, rv, call, getF, stableF, listF, nbF, pathF,
                 text, out>>

\* Lines 287-290: the loop over the indices binary_dijkstra returned.
FindOut ==
    /\ At("find_out")
    /\ IF Len(findF.path) < Len(findF.bd)
       THEN /\ getF' = [url |-> findF.ns[findF.bd[Len(findF.path) + 1]]]
            /\ stack' = <<"get", "find_push">> \o Tail(stack)
            /\ rv' = rv
       ELSE /\ rv' = Ok(findF.path)
            /\ stack' = Tail(stack)
            /\ getF' = getF
    /\ UNCHANGED <<session, web, edits, cache, processed, fetched, call, findF, stableF, listF, nbF, pathF,
                 text, out>>

\* Line 288, after the await.
FindPush ==
    /\ At("find_push")
    /\ IF rv.kind = "err"
       THEN /\ stack' = Tail(stack)
            /\ findF' = findF
       ELSE /\ findF' = [findF EXCEPT !.path = Append(@, rv.val)]
            /\ stack' = <<"find_out">> \o Tail(stack)
    /\ UNCHANGED <<session, web, edits, cache, processed, fetched, rv, call, getF, stableF, listF, nbF, pathF,
                 text, out>>

----------------------------------------------------------------------------
Next ==
    \/ CallGet \/ Get \/ GetUncached
    \/ CallGetListStable \/ StableLoop \/ StablePush
    \/ CallGetList \/ List \/ ListJoin \/ ListFold \/ ListDone
    \/ CallGetNeighbourhood \/ Nb \/ NbExpand
    \/ CallGetPath \/ Path \/ PathExpand
    \/ CallFindPath \/ Find \/ FindBfs \/ FindEdges \/ FindOut \/ FindPush

Spec == Init /\ [][Next]_vars

----------------------------------------------------------------------------
\* A Collector that serves get_path calls only.  A call is one future that
\* the executor drives until it is ready (runtime.block_on), and every
\* fetch completes, with an article or an error: a step of the call that
\* can be taken is taken.
PathNext ==
    \/ CallGetPath \/ Path \/ PathExpand
    \/ List \/ ListJoin \/ ListFold \/ ListDone
    \/ Find \/ FindBfs \/ FindEdges \/ FindOut \/ FindPush
    \/ Get \/ GetUncached

PathSpec == Init /\ [][PathNext]_vars /\ WF_vars(PathNext)

----------------------------------------------------------------------------
\* tests::get_list_is_deterministic, lines 376-394, for any input list and
\* with a Collector that may have served one get before: get_list(us) is
\* called, and called again with the same `us` as long as it returned Ok
\* (the test's `?` ends the run on an Err).

\* The lookups the test run may have counted when it calls get_list again.
MaxTestProcessed == 4

\* The Collector serves one get before the test's list is looked up.
TestPrime == call.op = "none" /\ CallGet

\* Line 389: the first get_list(&us).
TestFirst ==
    /\ call.op \in {"none", "get"}
    /\ \E urls \in Lists(MaxLen) :
        Enter(NewCall("get_list", urls, 0, {}), "list",
              NoGet, NoStable, [NoList EXCEPT !.urls = urls], NoNb, NoPath, NoFind)

\* Lines 390-392: get_list(&us) once more.
TestAgain ==
    /\ call.op = "get_list"
    /\ rv.kind = "ok"
    /\ processed < MaxTestProcessed
    /\ Enter(NewCall("get_list", call.urls, 0, {}), "list",
             NoGet, NoStable, [NoList EXCEPT !.urls = call.urls], NoNb, NoPath, NoFind)

TestNext ==
    \/ TestPrime \/ TestFirst \/ TestAgain
    \/ Get \/ GetUncached
    \/ List \/ ListJoin \/ ListFold \/ ListDone

TestSpec == Init /\ [][TestNext]_vars

----------------------------------------------------------------------------
\* Strings (url.rs, config.rs, Article::parse).  A &str is the sequence of
\* its characters.

\* config.rs, line 9
WIKI_ARTICLE_PREFIX == <<"/", "w", "i", "k", "i", "/">>

\* config.rs, line 11
WIKI_DOMAIN ==
    <<"h", "t", "t", "p", "s", ":", "/", "/", "e", "n", ".", "w", "i", "k", "i", "p", "e", "d", "i", "a", ".", "o", "r", "g">>

\* config.rs, lines 18-27.  extract_body does not read it: the loop over it
\* (url.rs, lines 79-85) is commented out.
WIKI_ARTICLE_PREFIX_BLACKLIST ==
    <<<<"C", "a", "t", "e", "g", "o", "r", "y", ":">>,
      <<"T", "a", "l", "k", ":">>,
      <<"M", "a", "i", "n", "_", "P", "a", "g", "e">>,
      <<"H", "e", "l", "p", ":">>,
      <<"W", "i", "k", "i", "p", "e", "d", "i", "a", ":">>,
      <<"S", "p", "e", "c", "i", "a", "l", ":">>,
      <<"F", "i", "l", "e", ":">>,
      <<"P", "o", "r", "t", "a", "l", ":">>>>

\* config.rs, line 29
WIKI_ARTICLE_SUFFIX_BLACKLIST == <<<<"_", "(", "d", "i", "s", "a", "m", "b", "i", "g", "u", "a", "t", "i", "o", "n", ")">>>>

\* config.rs, line 31
REFERENCE_PREFIX == <<"<", "a", " ", "h", "r", "e", "f", "=", "\"">>

\* str::starts_with
StartsWith(s, p) == Len(p) <= Len(s) /\ SubSeq(s, 1, Len(p)) = p

\* str::ends_with
EndsWith(s, p) == Len(p) <= Len(s) /\ SubSeq(s, Len(s) - Len(p) + 1, Len(s)) = p

\* &s[n..] with n counted from 0
From(s, n) == SubSeq(s, n + 1, Len(s))

\* str::find(c): Some(0-based index of the first c), or -1 for None
FindChar(s, c) ==
    IF \E i \in 1..Len(s) : s[i] = c
    THEN (CHOOSE i \in 1..Len(s) : s[i] = c /\ \A j \in 1..(i - 1) : s[j] # c) - 1
    ELSE -1

\* str::contains(c)
Contains(s, c) == FindChar(s, c) >= 0

\* str::split(c).next().unwrap(): the part before the first c
FirstPart(s, c) == IF Contains(s, c) THEN SubSeq(s, 1, FindChar(s, c)) ELSE s

\* url.rs, lines 69-71: the domain is stripped when the url starts with it.
WithoutDomain(url) ==
    IF StartsWith(url, WIKI_DOMAIN) THEN From(url, Len(WIKI_DOMAIN)) ELSE url

\* url.rs, lines 86-91: the body ends with a blacklisted suffix.
SuffixBlacklisted(body) ==
    \E i \in 1..Len(WIKI_ARTICLE_SUFFIX_BLACKLIST) :
        EndsWith(body, WIKI_ARTICLE_SUFFIX_BLACKLIST[i])

\* URL::extract_body, url.rs lines 68-95.
extract_body(url) ==
    LET u == WithoutDomain(url)
    IN  IF ~StartsWith(u, WIKI_ARTICLE_PREFIX) THEN Err("MissingPrefix")
        ELSE LET body == From(u, Len(WIKI_ARTICLE_PREFIX))
             IN  IF Contains(body, ":") THEN Err("BlacklistedPrefix")
                 ELSE IF SuffixBlacklisted(body) THEN Err("BlacklistedSuffix")
                 ELSE Ok(FirstPart(body, "#"))

\* URL::new, url.rs lines 35-37.
URL_new(url) == extract_body(url)

RECURSIVE Flatten(_)
Flatten(ps) == IF ps = <<>> THEN <<>> ELSE Head(ps) \o Flatten(Tail(ps))

\* The strings made of at most n of the given pieces.
Joined(pieces, n) == {Flatten(ps) : ps \in UNION {[1..k -> pieces] : k \in 0..n}}

\* Most pieces an input of URL::new is made of.
MaxUrlPieces == 4

UrlPieces ==
    {WIKI_DOMAIN, WIKI_ARTICLE_PREFIX, WIKI_ARTICLE_SUFFIX_BLACKLIST[1],
     <<"O", "a", "k">>, <<"#", "x">>, <<":">>, WIKI_ARTICLE_PREFIX_BLACKLIST[2],
     WIKI_ARTICLE_PREFIX_BLACKLIST[3]}

\* A caller has a string to make an identifier of.
UrlInit ==
    /\ New
    /\ text \in Joined(UrlPieces, MaxUrlPieces)
    /\ out = NoResult

\* URL::new(text) is called.
NewUrl ==
    /\ out = NoResult
    /\ out' = URL_new(text)
    /\ UNCHANGED <<web, edits, cache, processed, fetched, session, stack, rv, call,
                   getF, stableF, listF, nbF, pathF, findF, text>>

UrlNext == NewUrl

UrlSpec == UrlInit /\ [][UrlNext]_vars

----------------------------------------------------------------------------
\* Article::parse, article.rs lines 34-68.

\* Line 39: the start of a reference to an article.
IN_WIKI_REFERENCE == REFERENCE_PREFIX \o WIKI_ARTICLE_PREFIX

\* str::lines: the lines of a text, without their "\n".
RECURSIVE Lines(_)
Lines(site) ==
    IF site = <<>> THEN <<>>
    ELSE IF Contains(site, "\n")
    THEN <<FirstPart(site, "\n")>> \o Lines(From(site, FindChar(site, "\n") + 1))
    ELSE <<site>>

\* A parse that gives up on a link URL::new rejects.
AfterLinkStrict(st, r) ==
    IF r.kind = "ok" THEN [st EXCEPT !.refs = @ \cup {r.val}]
    ELSE [st EXCEPT !.err = r.val]

\* Lines 48-50: a captured link is recorded if URL::new accepts it.
AfterLink(st, r) ==
    IF r.kind = "ok" THEN [st EXCEPT !.refs = @ \cup {r.val}] ELSE st

\* Lines 38-60: the scan of one line.
RECURSIVE ParseLine(_, _)
ParseLine(line, st) ==
    IF line = <<>> \/ st.err # "none" THEN st
    ELSE IF StartsWith(line, IN_WIKI_REFERENCE)
    THEN LET rest == From(line, Len(REFERENCE_PREFIX))
             end == FindChar(rest, "\"")
         IN  IF end < 0 THEN [st EXCEPT !.err = "UnexpectedEOL"]
             ELSE ParseLine(From(rest, end), AfterLink(st, URL_new(SubSeq(rest, 1, end))))
    ELSE ParseLine(Tail(line), st)

\* Lines 36-37 and 61: line after line, until one fails.
RECURSIVE ParseLines(_, _)
ParseLines(lines, st) ==
    IF lines = <<>> \/ st.err # "none" THEN st
    ELSE ParseLines(Tail(lines), ParseLine(Head(lines), st))

\* Article::parse(url, site)
parse(url, site) ==
    LET st == ParseLines(Lines(site), [refs |-> {}, err |-> "none"])
    IN  IF st.err # "none" THEN Err(st.err) ELSE Ok(Article(url, st.refs))

\* Most pieces a page text is made of.
MaxPagePieces == 3

TreeLink ==
    <<"<", "a", " ", "h", "r", "e", "f", "=", "\"", "/", "w", "i", "k", "i",
      "/", "T", "r", "e", "e", "\"", ">", "T", "r", "e", "e", "<", "/", "a",
      ">">>

HelpLink ==
    <<"<", "a", " ", "h", "r", "e", "f", "=", "\"", "/", "w", "i", "k", "i",
      "/", "H", "e", "l", "p", ":", "X", "\"", ">", "H", "e", "l", "p", "<",
      "/", "a", ">">>

PagePieces ==
    {TreeLink, HelpLink, <<" ", "a", "n", "d", " ">>,
     IN_WIKI_REFERENCE \o <<"O", "a", "k">>,
     REFERENCE_PREFIX \o <<"h", "t", "t", "p", ":", "/", "/", "x">>,
     WIKI_ARTICLE_SUFFIX_BLACKLIST[1], <<"\"">>, <<"\n">>}

\* The identifier of the page that is parsed.
PageUrl == <<"W", "i", "k", "i", "p", "e", "d", "i", "a">>

\* A page text has arrived.
PageInit ==
    /\ New
    /\ text \in Joined(PagePieces, MaxPagePieces)
    /\ out = NoResult

\* Article::parse(url, text) is called.
ParsePage ==
    /\ out = NoResult
    /\ out' = parse(PageUrl, text)
    /\ UNCHANGED <<web, edits, cache, processed, fetched, session, stack, rv, call,
                   getF, stableF, listF, nbF, pathF, findF, text>>

PageNext == ParsePage

PageSpec == PageInit /\ [][PageNext]_vars

----------------------------------------------------------------------------
\* Vocabulary of the properties

\* The top-level call `op` has returned (or panicked).
Completed(op) == call.op = op /\ stack = <<>>

\* The references the session has seen page u served with (none if never served).
Refs(u) == IF u \in DOMAIN web THEN web[u] ELSE {}

\* The nodes of N reachable from S in at most n hops through nodes of N.
RECURSIVE Within(_, _, _)
Within(N, S, n) ==
    IF n = 0 THEN S \cap N
    ELSE LET W == Within(N, S, n - 1)
         IN  W \cup (UNION {Refs(u) : u \in W} \cap N)

\* Hop distance from og to tg inside N; -1 when tg is not reachable.
Dist(N, og, tg) ==
    IF \E n \in 0..Cardinality(N) : tg \in Within(N, {og}, n)
    THEN CHOOSE n \in 0..Cardinality(N) :
            /\ tg \in Within(N, {og}, n)
            /\ \A m \in 0..(n - 1) : tg \notin Within(N, {og}, m)
    ELSE -1

\* The identifiers of a list of articles.
UrlsOf(arts) == {arts[i].url : i \in 1..Len(arts)}

\* No fetch of the current call failed and no page was seen changed.
CleanCall == call.failures = 0 /\ edits = 0

----------------------------------------------------------------------------
\* C1: a get of an identifier that is in the cache when the call starts
\* returns exactly the cached Article, issues no transport call and leaves
\* the cache as it was.
C1_CachedGetIsIdempotent ==
    (Completed("get") /\ call.urls[1] \in DOMAIN call.cache0)
        => /\ rv.kind = "ok"
           /\ rv.val = call.cache0[call.urls[1]]
           /\ fetched = call.fetched0
           /\ cache = call.cache0

\* A get has returned for an identifier that an earlier call had cached.
C1_Witness ==
    /\ Completed("get")
    /\ call.urls[1] \in DOMAIN call.cache0
    /\ fetched[call.urls[1]] >= 1
    /\ rv.kind = "ok"

\* C2: a get_list over identifiers none of which is cached, in which exactly
\* one fetch fails, returns an error and leaves none of them in the cache.
C2_FailedBatchLeavesCacheUntouched ==
    (/\ Completed("get_list")
     /\ call.failures = 1
     /\ \A i \in 1..Len(call.urls) : call.urls[i] \notin DOMAIN call.cache0)
        => /\ rv.kind = "err"
           /\ \A i \in 1..Len(call.urls) : call.urls[i] \notin DOMAIN cache

\* C3: when the target is k >= 1 hops from the origin and every fetch
\* succeeds, get_path (and find_path on a node set that holds both ends and
\* a path between them) returns a list of exactly k + 1 articles.
C3_ShortestPath ==
    /\ (Completed("get_path") /\ CleanCall
        /\ Dist(URLS, call.urls[1], call.urls[2]) >= 1)
            => /\ rv.kind = "ok"
               /\ Len(rv.val) = Dist(URLS, call.urls[1], call.urls[2]) + 1
    /\ (Completed("find_path") /\ CleanCall
        /\ {call.urls[1], call.urls[2]} \subseteq call.nodes
        /\ Dist(call.nodes, call.urls[1], call.urls[2]) >= 1)
            => /\ rv.kind = "ok"
               /\ Len(rv.val) = Dist(call.nodes, call.urls[1], call.urls[2]) + 1

\* C4: the list get_path / find_path returns starts with the origin, ends
\* with the target, and every article in it references the next one.
C4_PathRunsFromOriginToTarget ==
    ((Completed("get_path") \/ Completed("find_path")) /\ rv.kind = "ok")
        => /\ Len(rv.val) >= 1
           /\ rv.val[1].url = call.urls[1]
           /\ rv.val[Len(rv.val)].url = call.urls[2]
           /\ \A i \in 1..(Len(rv.val) - 1) : rv.val[i + 1].url \in rv.val[i].references

\* C5 as stated: for depth >= 2 and no failed fetch, no identifier first
\* discovered in the final expansion round (the last new_ts) is in the list
\* get_neighbourhood returns.
C5_FinalFrontierExcluded ==
    (Completed("get_neighbourhood") /\ rv.kind = "ok" /\ call.depth >= 2 /\ call.failures = 0)
        => \A u \in nbF.ts : u \notin UrlsOf(rv.val)

\* C5 amended: for depth >= 2 and no failed fetch, the list returned by
\* get_neighbourhood holds exactly the identifiers of ns, one article each,
\* and ns includes the identifiers first discovered in the final round.
C5_FinalFrontierIncluded ==
    (Completed("get_neighbourhood") /\ rv.kind = "ok" /\ call.depth >= 2 /\ call.failures = 0)
        => /\ nbF.ts \subseteq UrlsOf(rv.val)
           /\ UrlsOf(rv.val) = nbF.ns
           /\ Len(rv.val) = Cardinality(nbF.ns)

\* A neighbourhood of depth >= 2 was returned whose final round discovered
\* identifiers not encountered before.
C5_Witness ==
    /\ Completed("get_neighbourhood")
    /\ rv.kind = "ok"
    /\ call.depth >= 2
    /\ call.failures = 0
    /\ nbF.ts # {}

\* C6: get_neighbourhood with depth 0 or 1 returns Ok of the empty list.
C6_ShallowNeighbourhoodIsEmpty ==
    (Completed("get_neighbourhood") /\ call.depth <= 1)
        => rv.kind = "ok" /\ rv.val = <<>>

\* get_neighbourhood(start, 1) has returned on a Collector that had the
\* start article in its cache.
C6_Witness ==
    /\ Completed("get_neighbourhood")
    /\ call.depth = 1
    /\ call.urls[1] \in DOMAIN call.cache0
    /\ Refs(call.urls[1]) # {}

\* C7 as stated: in a session without a failed fetch no identifier is
\* fetched twice.
C7_NoArticleFetchedTwice ==
    ~session.failed => \A u \in URLS : fetched[u] <= 1

\* C7 amended: in a session without a failed fetch and without a get_list
\* input that repeats an identifier, no identifier is fetched twice.
C7_NoArticleFetchedTwiceWithoutRepeats ==
    (~session.failed /\ ~session.repeated) => \A u \in URLS : fetched[u] <= 1

\* A second call has looked up an article the first call fetched, in a
\* session without failures and repeats.
C7_Witness ==
    /\ ~session.failed
    /\ ~session.repeated
    /\ stack = <<>>
    /\ call.op \in {"get", "get_list", "get_list_stable", "get_neighbourhood", "get_path"}
    /\ \E i \in 1..Len(call.urls) :
        call.urls[i] \in DOMAIN call.cache0 /\ fetched[call.urls[i]] = 1
    /\ processed > call.processed0

\* C8 as stated: no step removes a key of the cache or changes the Article
\* a key maps to, whatever the transport serves.
C8_CacheMonotone ==
    [][\A u \in DOMAIN cache : u \in DOMAIN cache' /\ cache'[u] = cache[u]]_vars

\* C8 amended: no step removes a key of the cache, whatever the transport
\* serves; and no step changes the Article a key maps to as long as no fetch
\* has seen a page changed since it was last served.
C8_CacheMonotoneWhilePagesAreStable ==
    [][/\ \A u \in DOMAIN cache : u \in DOMAIN cache'
       /\ edits' = 0 => \A u \in DOMAIN cache : cache'[u] = cache[u]]_vars

\* get_list has inserted the same identifier twice (it was repeated in the
\* input and fetched twice) while every page was served unchanged.
C8_Witness ==
    /\ Completed("get_list")
    /\ rv.kind = "ok"
    /\ edits = 0
    /\ \E u \in DOMAIN cache : fetched[u] = 2 /\ u \notin DOMAIN call.cache0

\* C9: once get_list has returned Ok, every identifier of its input is in
\* the cache; and a get of a cached identifier issues no transport call.
C9_BatchPopulatesCache ==
    /\ (Completed("get_list") /\ rv.kind = "ok")
        => \A i \in 1..Len(call.urls) : call.urls[i] \in DOMAIN cache
    /\ (Completed("get") /\ call.urls[1] \in DOMAIN call.cache0)
        => fetched = call.fetched0

\* get_list has returned Ok for an input with an identifier that was not
\* cached before.
C9_Witness ==
    /\ Completed("get_list")
    /\ rv.kind = "ok"
    /\ \E i \in 1..Len(call.urls) : call.urls[i] \notin DOMAIN call.cache0

\* C10: the list get_list_stable returns has the length of the input and,
\* at each index, the article of the identifier at that index.
C10_StableKeepsOrder ==
    (Completed("get_list_stable") /\ rv.kind = "ok")
        => /\ Len(rv.val) = Len(call.urls)
           /\ \A i \in 1..Len(call.urls) : rv.val[i].url = call.urls[i]

\* get_list_stable has returned for two different identifiers of which only
\* the second was cached.
C10_Witness ==
    /\ Completed("get_list_stable")
    /\ rv.kind = "ok"
    /\ Len(call.urls) = 2
    /\ call.urls[1] # call.urls[2]
    /\ call.urls[1] \notin DOMAIN call.cache0
    /\ call.urls[2] \in DOMAIN call.cache0

\* C11 as stated: a successful get_list returns the list that the successful
\* get_list of the same input just before it returned, whatever the cache
\* held when the earlier call started.
C11_GetListDeterministic ==
    (Completed("get_list") /\ rv.kind = "ok" /\ call.before.rv.kind = "ok")
        => rv.val = call.before.rv.val

\* No cached identifier of `urls` comes after an uncached one.
CachedFirst(urls, c) ==
    \A i, j \in 1..Len(urls) :
        (i < j /\ urls[j] \in DOMAIN c) => urls[i] \in DOMAIN c

\* C11 amended: a successful get_list returns the list that the successful
\* get_list of the same input just before it returned, when the earlier call
\* started with no cached identifier of the list after an uncached one
\* (an empty or a fully populated cache among them) and no fetch has seen a
\* page changed.
C11_GetListDeterministicCachedFirst ==
    (/\ Completed("get_list") /\ rv.kind = "ok" /\ call.before.rv.kind = "ok"
     /\ CachedFirst(call.urls, call.before.cache0)
     /\ edits = 0)
        => rv.val = call.before.rv.val

\* get_list has returned Ok twice in a row for two different identifiers,
\* none of them cached before the first call.
C11_Witness ==
    /\ Completed("get_list") /\ rv.kind = "ok" /\ call.before.rv.kind = "ok"
    /\ Len(call.urls) = 2
    /\ call.urls[1] # call.urls[2]
    /\ \A i \in 1..2 : call.urls[i] \notin DOMAIN call.before.cache0
    /\ edits = 0

\* C12: while a fetch of the batch is still in flight, get_list neither
\* returns (even if another fetch of the batch has failed already) nor
\* inserts anything into the cache.
C12_BatchAwaitsEveryFetch ==
    [][(At("list_join") /\ \E i \in 1..Len(listF.res) : listF.res[i].kind = "pending")
          => /\ stack' = stack
             /\ rv' = rv
             /\ cache' = cache]_vars

\* One fetch of a batch has failed while another one is still in flight.
C12_Witness ==
    /\ At("list_join")
    /\ \E i, j \in 1..Len(listF.res) :
        listF.res[i].kind = "err" /\ listF.res[j].kind = "pending"

\* The transport calls the current call has issued for u.
Issued(u) == fetched[u] - call.fetched0[u]

\* C13: a get_list call issues, for every identifier, as many fetches as the
\* input has positions that hold it while it was not cached at call time.
C13_OneFetchPerUncachedPosition ==
    (call.op = "get_list" /\ ~At("list"))
        => \A u \in URLS :
            Issued(u) = IF u \in DOMAIN call.cache0 THEN 0 ELSE Count(call.urls, u)

\* get_list has returned for an input that holds an uncached identifier at
\* two positions, after two fetches of it.
C13_Witness ==
    /\ Completed("get_list")
    /\ \E u \in URLS :
        /\ u \notin DOMAIN call.cache0
        /\ Count(call.urls, u) = 2
        /\ Issued(u) = 2

\* C14: processed never decreases; a get adds exactly 1 to it whether it
\* hits the cache, fetches or fails, and a get_list adds the length of its
\* input; the fetches a get issues follow from the cache alone.
C14_ProcessedCountsEveryLookup ==
    /\ [][processed' >= processed]_vars
    /\ [](Completed("get") => processed = call.processed0 + 1)
    /\ [](Completed("get_list") => processed = call.processed0 + Len(call.urls))
    /\ [](Completed("get") =>
            \A u \in URLS :
                Issued(u) = IF u = call.urls[1] /\ u \notin DOMAIN call.cache0 THEN 1 ELSE 0)

\* A get whose fetch failed has returned, on a Collector that had counted
\* lookups before.
C14_Witness ==
    /\ Completed("get")
    /\ rv.kind = "err"
    /\ call.processed0 >= 1
    /\ processed = call.processed0 + 1

\* C15: when a lookup of get_list_stable fails, the call returns the error
\* (no list); the failed identifier is the last one looked up, every one
\* before it succeeded, and no identifier that only occurs after it was
\* looked up or fetched.
C15_StableFailsFast ==
    (Completed("get_list_stable") /\ call.failures >= 1)
        => LET n == processed - call.processed0
           IN  /\ rv.kind = "err"
               /\ call.failures = 1
               /\ n \in 1..Len(call.urls)
               /\ call.urls[n] \notin DOMAIN cache
               /\ \A j \in 1..(n - 1) : call.urls[j] \in DOMAIN cache
               /\ \A u \in URLS : Issued(u) <= Count(SubSeq(call.urls, 1, n), u)

\* get_list_stable has returned the error of its first lookup, for an input
\* whose second identifier is another one and not cached either.
C15_Witness ==
    /\ Completed("get_list_stable")
    /\ rv.kind = "err"
    /\ Len(call.urls) = 2
    /\ call.urls[1] # call.urls[2]
    /\ call.urls[2] \notin DOMAIN call.cache0
    /\ processed = call.processed0 + 1

\* C16: a get_neighbourhood or get_path in which a fetch failed returns an
\* error, and has fetched no identifier a second time.
C16_FailedFetchAbortsQuery ==
    ((Completed("get_neighbourhood") \/ Completed("get_path")) /\ call.failures >= 1)
        => /\ rv.kind = "err"
           /\ \A u \in URLS : Issued(u) <= 1

\* A query has returned after a failed fetch that followed fetches that
\* had succeeded.
C16_Witness ==
    /\ Completed("get_neighbourhood") \/ Completed("get_path")
    /\ call.failures >= 1
    /\ rv.kind = "err"
    /\ DOMAIN cache # DOMAIN call.cache0

\* The node list get_path hands to find_path, at the call of find_path.
Handed == At("find") /\ call.op = "get_path" /\ call.urls[1] # call.urls[2]

\* C17 as stated: for an origin different from the target, the node set
\* get_path hands to find_path does not hold the target.
C17_TargetNotHanded ==
    Handed => call.urls[2] \notin Range(findF.ns)

\* C17 amended: for an origin different from the target, the node set
\* get_path hands to find_path holds the origin and the target (the exit
\* frontier was inserted into ns when it was discovered), and find_path
\* called from get_path never panics on a missing origin or target or on an
\* exhausted neighbourhood.
C17_TargetHanded ==
    /\ Handed => {call.urls[1], call.urls[2]} \subseteq Range(findF.ns)
    /\ (Completed("get_path") /\ call.urls[1] # call.urls[2] /\ rv.kind = "panic")
        => rv.val = "called Option::unwrap on a None value"

\* get_path calls find_path for a target two rounds away from the origin.
C17_Witness ==
    /\ Handed
    /\ call.urls[2] \notin Refs(call.urls[1])
    /\ Cardinality(pathF.ns) = 3

\* find_path was called with a node set that misses the origin or the
\* target, or holds no reference path from the origin to the target.
Violation ==
    \/ call.urls[1] \notin call.nodes
    \/ call.urls[2] \notin call.nodes
    \/ Dist(call.nodes, call.urls[1], call.urls[2]) = -1

\* C18 as stated: a find_path whose precondition is violated panics.
C18_ViolationPanics ==
    (Completed("find_path") /\ Violation) => rv.kind = "panic"

\* C18 amended: with pages that do not change, a find_path whose
\* precondition is violated panics, with the message of the expectation that
\* failed, unless a fetch it issued failed before; then that error is
\* returned.
C18_ViolationPanicsUnlessFetchFails ==
    (Completed("find_path") /\ Violation /\ edits = 0)
        => IF call.failures = 0
           THEN /\ rv.kind = "panic"
                /\ rv.val = (IF call.urls[1] \notin call.nodes
                             THEN "Origin for required path is not in given neighbourhood."
                             ELSE IF call.urls[2] \notin call.nodes
                             THEN "Target for required path is not in given neighbourhood."
                             ELSE "Target could not be visited before exhausting neighbourhood.")
           ELSE rv = Err("RequestError")

\* find_path has panicked after visiting two nodes of a node set that holds
\* both ends but no path between them.
C18_Witness ==
    /\ Completed("find_path")
    /\ {call.urls[1], call.urls[2]} \subseteq call.nodes
    /\ Dist(call.nodes, call.urls[1], call.urls[2]) = -1
    /\ call.failures = 0
    /\ rv.kind = "panic"
    /\ Len(findF.dequeued) = 2

\* The part of the input after the domain and the article prefix, without
\* its fragment.
PathOf(url) == FirstPart(From(WithoutDomain(url), Len(WIKI_ARTICLE_PREFIX)), "#")

\* C20: URL::new rejects every input whose path, without its fragment, ends
\* with "_(disambiguation)", and no identifier it constructs ends with it.
C20_FragmentStrippedBeforeSuffixRule ==
    /\ (/\ out.kind \in {"ok", "err"}
        /\ StartsWith(WithoutDomain(text), WIKI_ARTICLE_PREFIX)
        /\ SuffixBlacklisted(PathOf(text)))
            => out.kind = "err"
    /\ out.kind = "ok" => ~SuffixBlacklisted(out.val)

\* The text of C19.
Example == TreeLink \o <<" ", "a", "n", "d", " ">> \o HelpLink

\* An in-wiki reference starts somewhere in the text and its line ends
\* before the next quote.
Unterminated(site) ==
    \E p \in 1..Len(site) :
        /\ StartsWith(From(site, p - 1), IN_WIKI_REFERENCE)
        /\ ~Contains(FirstPart(From(site, p - 1 + Len(REFERENCE_PREFIX)), "\n"), "\"")

\* C19: Article::parse fails only with the parse error, and only for a text
\* in which an in-wiki reference starts and the line ends before the closing
\* quote; a link that identifier validation rejects is left out of the
\* references; and the references of the example text are exactly {Tree}.
C19_ParseDropsRejectedLinks ==
    /\ out.kind = "err" => (out.val = "UnexpectedEOL" /\ Unterminated(text))
    /\ out.kind = "ok" => \A r \in out.val.references : ~Contains(r, ":")
    /\ (out.kind \in {"ok", "err"} /\ text = Example)
        => (out.kind = "ok" /\ out.val.references = {<<"T", "r", "e", "e">>})

\* The example text has been parsed.
C19_Witness ==
    /\ text = Example
    /\ out.kind = "ok"

\* The part of the input after the domain and the article prefix.
BodyOf(url) == From(WithoutDomain(url), Len(WIKI_ARTICLE_PREFIX))

\* The input lacks the article prefix (after the domain, if it has one), or
\* its path starts with an entry of the namespace blacklist, or holds a ':'.
Invalid(url) ==
    \/ ~StartsWith(WithoutDomain(url), WIKI_ARTICLE_PREFIX)
    \/ \E i \in 1..Len(WIKI_ARTICLE_PREFIX_BLACKLIST) :
          StartsWith(BodyOf(url), WIKI_ARTICLE_PREFIX_BLACKLIST[i])
    \/ Contains(BodyOf(url), ":")

\* C21: URL::new fails for every input that lacks the prefix or whose path
\* is in a blacklisted namespace ("Main_Page" among them) or holds a ':'.
C21_BlacklistedNamespacesRejected ==
    (out.kind \in {"ok", "err"} /\ Invalid(text)) => out.kind = "err"

\* find_path has located both ends and its visitation loop has its state.
Visiting == findF.og_idx # 0

\* The nodes in the order they were queued: the dequeued ones, then the queue.
Queued == findF.dequeued \o findF.q

IsPrefix(a, b) == Len(a) <= Len(b) /\ SubSeq(b, 1, Len(a)) = a

NoRepeat(q) == \A i, j \in 1..Len(q) : q[i] = q[j] => i = j

\* C22: in find_path's visitation no node is queued twice; a step takes the
\* oldest node off the queue or adds nodes at its end; and once the target
\* is marked seen no node is dequeued and no lookup of the visitation loop
\* is under way.
C22_VisitationIsFifoAndStopsAtTarget ==
    /\ [](Visiting => NoRepeat(Queued))
    /\ []((Visiting /\ findF.seen[findF.tg_idx]) => "find_edges" \notin Range(stack))
    /\ [][(Visiting /\ Visiting' /\ stack # <<>>)
            => /\ IsPrefix(Queued, Queued')
               /\ findF.seen[findF.tg_idx] => findF'.dequeued = findF.dequeued]_vars

\* find_path has ended after its visitation dequeued two nodes and marked
\* the target seen, which is still queued.
C22_Witness ==
    /\ Visiting
    /\ stack = <<>>
    /\ findF.seen[findF.tg_idx]
    /\ Len(findF.dequeued) = 2
    /\ findF.q = <<findF.tg_idx>>

\* A lookup of find_path's visitation loop is under way, in a find_path
\* that get_path called.
VisitLookup ==
    /\ call.op = "get_path"
    /\ "find_edges" \in Range(stack)
    /\ Head(stack) # "find_edges"

\* C23: in a find_path called by get_path, every lookup of the visitation
\* loop is a get of a cached identifier: it issues no transport call.
C23_VisitationHitsCache ==
    VisitLookup => (Head(stack) = "get" /\ getF.url \in DOMAIN cache)

\* The visitation loop of a find_path called by get_path looks up the
\* second node it dequeued, which this get_path had fetched.
C23_Witness ==
    /\ VisitLookup
    /\ Len(findF.dequeued) = 2
    /\ getF.url \notin DOMAIN call.cache0

\* The identifiers at most n hops from u.
Ball(u, n) == Within(URLS, {u}, n)

\* C24: for depth >= 2, with no failed fetch and no page changed,
\* get_neighbourhood(start, depth) makes depth - 1 expansion rounds and
\* returns one article for each identifier at most depth - 1 hops from
\* start, and no other.
C24_NeighbourhoodIsBall ==
    (Completed("get_neighbourhood") /\ call.depth >= 2 /\ CleanCall)
        => /\ rv.kind = "ok"
           /\ nbF.round - 1 = call.depth - 1
           /\ UrlsOf(rv.val) = Ball(call.urls[1], call.depth - 1)
           /\ Len(rv.val) = Cardinality(Ball(call.urls[1], call.depth - 1))

\* get_neighbourhood(start, 2) has returned the articles of start and of
\* what start references, and has left out an identifier two hops away.
C24_Witness ==
    /\ Completed("get_neighbourhood") /\ call.depth = 2 /\ CleanCall
    /\ rv.kind = "ok"
    /\ Len(rv.val) = 2
    /\ Ball(call.urls[1], 2) # Ball(call.urls[1], 1)

\* C25: every get_path call eventually returns or panics.
C25_GetPathTerminates ==
    (call.op = "get_path" /\ stack # <<>>) ~> (stack = <<>>)

\* C26: get_path(origin, origin) returns Ok without panicking, and the node
\* set it hands to find_path holds the origin.
C26_TrivialPathReturns ==
    /\ (Completed("get_path") /\ call.urls[1] = call.urls[2]) => rv.kind = "ok"
    /\ (At("find") /\ call.op = "get_path" /\ call.urls[1] = call.urls[2])
        => call.urls[1] \in Range(findF.ns)

====
